---- MODULE Spec2Model ----
(***************************************************************************)
(* Simple Git Clone Manager (src/app.py).                                  *)
(*                                                                         *)
(* Two things are modelled:                                                *)
(*   - CloneThread: the background worker that runs `git clone`, relays    *)
(*     the process output line by line and reports one finished signal;    *)
(*   - SimpleCloneManager: the catalog (repos.json, SAMPLE_CONFIG), the    *)
(*     three combo boxes, and the handlers that start clones and add       *)
(*     projects.                                                           *)
(*                                                                         *)
(* TaskSpec drives a single CloneThread from a caller that may call        *)
(* start() and stop(); CatalogSpec and CloneSpec drive the application     *)
(* through its user interface.  The git process and the catalog file are   *)
(* the environment.                                                        *)
(* The text of the process output is assumed decodable (text=True).        *)
(***************************************************************************)
EXTENDS Integers, Sequences, FiniteSets, TLC

VARIABLES
    threads,     \* CloneThread objects, by identity
    fs,          \* clone destinations that exist and are not empty
    sample,      \* the module-level dict SAMPLE_CONFIG
    repos,       \* self.repos
    aliased,     \* self.repos is the SAMPLE_CONFIG object itself
    file,        \* repos.json
    win,         \* the widgets the handlers read and write
    lastLoad,    \* history: the latest load_or_create_config call
    lastAdd,     \* history: the latest upsert of save_new_project
    adds,        \* history: upserts so far
    envs         \* history: outside changes of repos.json so far

appVars == <<sample, repos, aliased, file, win, lastLoad, lastAdd, adds, envs>>
vars == <<threads, fs, sample, repos, aliased, file, win, lastLoad, lastAdd, adds, envs>>

-----------------------------------------------------------------------------
(* Bounds *)

MaxThreads == 2     \* CloneThread objects ever constructed
MaxLines == 2       \* lines a git process writes before it exits
MaxAdds == 1        \* add-project upserts
MaxEnvs == 1        \* outside changes of repos.json

ThreadIds == 1..MaxThreads

-----------------------------------------------------------------------------
(* Environment: what the git process may write and how it may exit *)

Lines == { <<"a", " ", "\n">>, <<"b", "\n">>, <<"\n">> }
ExitCodes == {0, 1, 128}
ErrMsgs == {"[Errno 13] Permission denied: 'git'"}
Urls == {"u1", "u2"}
TaskDests == { <<"/dst", "P", "C">> }

Whitespace == {" ", "\n", "\t", "\r"}

\* str.rstrip() of a line, as used on app.py line 99
RECURSIVE Rstrip(_)
Rstrip(s) ==
    IF s = <<>> THEN s
    ELSE IF s[Len(s)] \in Whitespace THEN Rstrip(SubSeq(s, 1, Len(s) - 1))
    ELSE s

\* f"exit {ret}" on app.py line 107
ExitReason(ret) ==
    CASE ret = 0 -> "exit 0"
      [] ret = 1 -> "exit 1"
      [] ret = 128 -> "exit 128"
      [] OTHER -> "exit ?"

-----------------------------------------------------------------------------
(* Signals a CloneThread emits *)

LogEvent(m) == [kind |-> "log", msg |-> m, ok |-> FALSE, reason |-> ""]
FinishedEvent(success, info) ==
    [kind |-> "finished", msg |-> <<>>, ok |-> success, reason |-> info]

StartingMsg(url, dest) == <<"Starting clone", url, dest>>
LineMsg(text) == <<"line", text>>
AbortMsg == <<"Clone aborted by user.">>
CompletedMsg == <<"Clone completed successfully.">>
GitExitedMsg(ret) == <<"git exited with code", ret>>
NotFoundMsg == <<"Error: 'git' not found.">>
UnexpectedMsg(e) == <<"Unexpected error", e>>

-----------------------------------------------------------------------------
(* CloneThread *)

\* pc: none (no such object), new (constructed), mkdir, popen, read, check,
\*     done (run returned), raised (an exception left run),
\*     gone (run returned and the finished signal was handled: nothing reads
\*     the object any more)
NoThread ==
    [pc |-> "none", url |-> "", dest |-> <<>>, stopped |-> FALSE,
     events |-> <<>>,
     proc |-> "none", ret |-> 0, pipe |-> <<>>, produced |-> <<>>,
     cur |-> <<>>, launch |-> "none",
     \* history: bookkeeping for the properties, never read by the code
     nread |-> 0, killedAt |-> -1, obs |-> 0, stoppedEarly |-> FALSE]

GoneThread == [NoThread EXCEPT !.pc = "gone"]

\* CloneThread.__init__
NewThread(url, dest) == [NoThread EXCEPT !.pc = "new", !.url = url, !.dest = dest]

Emit(th, evs) == [th EXCEPT !.events = th.events \o evs]

\* the finished signals th has emitted
FinishedOf(th) == SelectSeq(th.events, LAMBDA e : e.kind = "finished")

\* QThread.start(): run() begins in the worker
Start(t) ==
    /\ threads[t].pc = "new"
    /\ threads' = [threads EXCEPT ![t].pc = "mkdir"]
    /\ UNCHANGED <<fs, appVars>>

\* CloneThread.stop
Stop(t) ==
    LET th == threads[t] IN
    /\ th.pc # "none"
    /\ threads' = [threads EXCEPT ![t] =
          [th EXCEPT !.stopped = TRUE,
                     !.stoppedEarly = th.stoppedEarly \/
                         (~th.stopped /\ th.proc = "running" /\ th.produced = <<>>)]]
    /\ UNCHANGED <<fs, appVars>>

\* run, lines 83-85: create the parent directory, announce the clone.
\* mkdir is outside the try block: its OSError leaves run.
RunMkdir(t) ==
    LET th == threads[t] IN
    /\ th.pc = "mkdir"
    /\ \E ok \in BOOLEAN :
          threads' = [threads EXCEPT ![t] =
              IF ok
              THEN [Emit(th, <<LogEvent(StartingMsg(th.url, th.dest))>>)
                        EXCEPT !.pc = "popen"]
              ELSE [th EXCEPT !.pc = "raised"]]
    /\ UNCHANGED <<fs, appVars>>

\* The signals of the two except handlers, lines 109-114
NotFoundSignals ==
    <<LogEvent(NotFoundMsg), FinishedEvent(FALSE, "git-not-found")>>
UnexpectedSignals(e) ==
    <<LogEvent(UnexpectedMsg(e)), FinishedEvent(FALSE, e)>>

\* run, lines 88-90: launch git
RunPopen(t) ==
    LET th == threads[t] IN
    /\ th.pc = "popen"
    /\ \/ threads' = [threads EXCEPT ![t] =
              [th EXCEPT !.pc = "read", !.proc = "running", !.launch = "ok"]]
       \/ threads' = [threads EXCEPT ![t] =
              [Emit(th, NotFoundSignals) EXCEPT !.pc = "done", !.launch = "notfound"]]
       \/ \E e \in ErrMsgs :
             threads' = [threads EXCEPT ![t] =
                 [Emit(th, UnexpectedSignals(e)) EXCEPT !.pc = "done", !.launch = "error"]]
    /\ UNCHANGED <<fs, appVars>>

\* (mutant) the iterator yields the newest line instead of the oldest
NextLineNewest(pipe) == pipe[Len(pipe)]

\* the line the iterator of proc.stdout yields, and what stays in the pipe
NextLine(pipe) == Head(pipe)
RestLines(pipe) == Tail(pipe)

\* run, line 93: the for loop takes the next line of the pipe
RunRead(t) ==
    LET th == threads[t] IN
    /\ th.pc = "read"
    /\ th.pipe # <<>>
    /\ threads' = [threads EXCEPT ![t] =
          [th EXCEPT !.pc = "check", !.cur = NextLine(th.pipe),
                     !.pipe = RestLines(th.pipe), !.nread = th.nread + 1]]
    /\ UNCHANGED <<fs, appVars>>

\* (mutant) the loop aborts at the first line, whatever the flag
ShouldAbortAlways(th) == TRUE

\* (mutant) the loop never looks at the flag
ShouldAbortNever(th) == FALSE

\* line 94: the cooperative flag as the loop sees it
ShouldAbort(th) == th.stopped

\* (mutant) the finished signal is emitted before the abort log line
AbortSignalsSwapped == <<FinishedEvent(FALSE, "aborted"), LogEvent(AbortMsg)>>

\* lines 95-97: kill, then the abort log line, then the finished signal
AbortSignals == <<LogEvent(AbortMsg), FinishedEvent(FALSE, "aborted")>>

\* line 99
LineSignals(line) == <<LogEvent(LineMsg(Rstrip(line)))>>

\* run, lines 94-99: one iteration of the loop body
RunCheck(t) ==
    LET th == threads[t] IN
    /\ th.pc = "check"
    /\ threads' = [threads EXCEPT ![t] =
          IF ShouldAbort(th)
          THEN [Emit(th, AbortSignals) EXCEPT
                    !.pc = "done",
                    !.proc = IF th.proc = "running" THEN "killed" ELSE th.proc,
                    !.killedAt = Len(th.events),
                    !.obs = IF th.stopped THEN th.nread ELSE th.obs]
          ELSE [Emit(th, LineSignals(th.cur)) EXCEPT
                    !.pc = "read",
                    !.obs = IF th.stopped THEN th.nread ELSE th.obs]]
    /\ UNCHANGED <<fs, appVars>>

\* (mutant) every exit status is reported as success
WaitSignalsAlwaysSuccess(ret) ==
    <<LogEvent(CompletedMsg), FinishedEvent(TRUE, "success")>>

\* lines 102-107: the signals for exit status ret
WaitSignals(ret) ==
    IF ret = 0
    THEN <<LogEvent(CompletedMsg), FinishedEvent(TRUE, "success")>>
    ELSE <<LogEvent(GitExitedMsg(ret)), FinishedEvent(FALSE, ExitReason(ret))>>

\* run, lines 101-107: end of output, wait for the exit status and report it
RunWait(t) ==
    LET th == threads[t] IN
    /\ th.pc = "read"
    /\ th.pipe = <<>>
    /\ th.proc = "exited"
    /\ threads' = [threads EXCEPT ![t] =
          [Emit(th, WaitSignals(th.ret)) EXCEPT !.pc = "done"]]
    /\ UNCHANGED <<fs, appVars>>

\* the git process writes a line to its stdout/stderr
ProcEmit(t, line, max) ==
    LET th == threads[t] IN
    /\ th.proc = "running"
    /\ Len(th.produced) < max
    /\ threads' = [threads EXCEPT ![t] =
          [th EXCEPT !.pipe = Append(th.pipe, line),
                     !.produced = Append(th.produced, line)]]
    /\ UNCHANGED <<fs, appVars>>

\* the git process exits with status ret; a clone that succeeded has filled
\* its destination
ProcExit(t, ret) ==
    LET th == threads[t] IN
    /\ th.proc = "running"
    /\ threads' = [threads EXCEPT ![t] = [th EXCEPT !.proc = "exited", !.ret = ret]]
    /\ fs' = IF ret = 0 THEN fs \cup {th.dest} ELSE fs
    /\ UNCHANGED appVars

\* a step of the worker thread of t
Worker(t) == RunMkdir(t) \/ RunPopen(t) \/ RunRead(t) \/ RunCheck(t) \/ RunWait(t)

-----------------------------------------------------------------------------
(* Catalog: category -> project -> component -> URL *)

\* SAMPLE_CONFIG as the module defines it
SAMPLE_CONFIG ==
    ("dev" :>
        (("ProjectA" :>
            (("Test" :> "https://github.com/abhisheksainiofficial7060/testrepo.git")
             @@ ("Component2" :> "https://github.com/user/projectA-component2.git")))
         @@ ("ProjectB" :>
            ("Component1" :> "https://github.com/user/projectB-component1.git"))))
    @@ ("localization" :>
        ("ProjectA" :>
            (("ui" :> "https://github.com/user/localization-projectA-ui.git")
             @@ ("strings" :> "https://github.com/user/localization-projectA-strings.git"))))

EmptyDict == <<>>

\* Python's order of the names used here (str comparison, by code point)
NameOrder ==
    <<"", "Component1", "Component2", "ProjectA", "ProjectB", "ProjectC",
      "Test", "dev", "localization", "strings", "ui">>

\* sorted(d.keys())
Sorted(S) == SelectSeq(NameOrder, LAMBDA n : n \in S)

\* (mutant) the document loses the URL of every component
DumpBlankUrls(c) ==
    {<<k>> : k \in DOMAIN c}
    \cup UNION {{<<k, p>> : p \in DOMAIN c[k]} : k \in DOMAIN c}
    \cup UNION {UNION {{<<k, p, m, "">> : m \in DOMAIN c[k][p]}
                          : p \in DOMAIN c[k]} : k \in DOMAIN c}

\* json.dump: the document lists every category, project and component
Dump(c) ==
    {<<k>> : k \in DOMAIN c}
    \cup UNION {{<<k, p>> : p \in DOMAIN c[k]} : k \in DOMAIN c}
    \cup UNION {UNION {{<<k, p, m, c[k][p][m]>> : m \in DOMAIN c[k][p]}
                          : p \in DOMAIN c[k]} : k \in DOMAIN c}

\* json.load of a well-formed catalog document, level by level
RECURSIVE ParseComponents(_, _, _, _)
ParseComponents(doc, k, p, ms) ==
    IF ms = {} THEN EmptyDict
    ELSE LET m == CHOOSE x \in ms : TRUE
             e == CHOOSE x \in doc : Len(x) = 4 /\ x[1] = k /\ x[2] = p /\ x[3] = m
         IN  (m :> e[4]) @@ ParseComponents(doc, k, p, ms \ {m})

RECURSIVE ParseProjects(_, _, _)
ParseProjects(doc, k, ps) ==
    IF ps = {} THEN EmptyDict
    ELSE LET p == CHOOSE x \in ps : TRUE
             ms == {e[3] : e \in {x \in doc : Len(x) = 4 /\ x[1] = k /\ x[2] = p}}
         IN  (p :> ParseComponents(doc, k, p, ms)) @@ ParseProjects(doc, k, ps \ {p})

RECURSIVE ParseCategories(_, _)
ParseCategories(doc, ks) ==
    IF ks = {} THEN EmptyDict
    ELSE LET k == CHOOSE x \in ks : TRUE
             ps == {e[2] : e \in {x \in doc : Len(x) = 2 /\ x[1] = k}}
         IN  (k :> ParseProjects(doc, k, ps)) @@ ParseCategories(doc, ks \ {k})

ParseDoc(doc) == ParseCategories(doc, {e[1] : e \in {x \in doc : Len(x) = 1}})

FileMissing == [state |-> "missing", doc |-> {}]
FileMalformed == [state |-> "malformed", doc |-> {}]
FileOk(doc) == [state |-> "ok", doc |-> doc]

\* load_or_create_config on file f, with smp the current SAMPLE_CONFIG object;
\* wok: the sample can be written when the file is missing.  The sample is
\* returned as the object itself, not as a copy.
LoadOrCreateConfig(f, smp, wok) ==
    IF f.state = "missing"
    THEN IF wok
         THEN [raised |-> FALSE, data |-> smp, aliased |-> TRUE,
               file |-> FileOk(Dump(smp))]
         ELSE [raised |-> TRUE, data |-> smp, aliased |-> TRUE, file |-> f]
    ELSE IF f.state = "ok"
    THEN [raised |-> FALSE, data |-> ParseDoc(f.doc), aliased |-> FALSE, file |-> f]
    ELSE [raised |-> FALSE, data |-> smp, aliased |-> TRUE, file |-> f]

LoadRecord(f, r) ==
    [kind |-> f.state, returned |-> r.data, before |-> f, after |-> r.file]

\* (mutant) an existing component keeps its URL
UpsertKeepExisting(c, k, p, m, u) ==
    LET c1 == IF k \in DOMAIN c THEN c ELSE c @@ (k :> EmptyDict)
        c2 == IF p \in DOMAIN c1[k] THEN c1 ELSE [c1 EXCEPT ![k] = @ @@ (p :> EmptyDict)]
    IN  [c2 EXCEPT ![k][p] = @ @@ (m :> u)]

\* (mutant) the project is replaced by one holding only the new component
UpsertReplaceProject(c, k, p, m, u) ==
    LET c1 == IF k \in DOMAIN c THEN c ELSE c @@ (k :> EmptyDict)
    IN  [c1 EXCEPT ![k] = (p :> (m :> u)) @@ @]

\* save_new_project, lines 468-476: self.repos[k][p][m] = u
Upsert(c, k, p, m, u) ==
    LET c1 == IF k \in DOMAIN c THEN c ELSE c @@ (k :> EmptyDict)
        c2 == IF p \in DOMAIN c1[k] THEN c1 ELSE [c1 EXCEPT ![k] = @ @@ (p :> EmptyDict)]
    IN  [c2 EXCEPT ![k][p] = (m :> u) @@ @]

-----------------------------------------------------------------------------
(* Text of line edits: a sequence of blanks and words *)

RECURSIVE Lstrip(_)
Lstrip(s) ==
    IF s # <<>> /\ s[1] \in Whitespace THEN Lstrip(Tail(s)) ELSE s

\* QLineEdit.text().strip(); the texts used here hold at most one word
StripText(s) ==
    LET r == Lstrip(Rstrip(s)) IN IF r = <<>> THEN "" ELSE r[1]

ProjEdits == { <<>>, <<"ProjectA">>, <<" ", "ProjectC", " ">> }
CompEdits == { <<" ">>, <<"Test">> }
UrlEdits == { <<>>, <<"u1">>, <<"u2">> }
DestEdits == { <<" ">> }
BrowseDirs == {"/dst"}
InitialDest == <<"/cwd/cloned">>

-----------------------------------------------------------------------------
(* Combo boxes.  idx = 0 stands for no current item (Qt's -1). *)

EmptyCombo == [items |-> <<>>, idx |-> 0]
CurrentText(c) == IF c.idx = 0 THEN "" ELSE c.items[c.idx]
FindText(c, text) ==
    IF \E i \in 1..Len(c.items) : c.items[i] = text
    THEN CHOOSE i \in 1..Len(c.items) : c.items[i] = text
    ELSE 0
\* (mutant) addItems makes the last item current
FilledLast(items) == [items |-> items, idx |-> Len(items)]

\* addItems on an empty combo makes the first item current
Filled(items) == [items |-> items, idx |-> IF items = <<>> THEN 0 ELSE 1]

\* on_project_change
OnProjectChange(w, rp, text) ==
    LET cat == CurrentText(w.cat_combo)
        items == IF cat # "" /\ text # "" /\ cat \in DOMAIN rp /\ text \in DOMAIN rp[cat]
                 THEN Sorted(DOMAIN rp[cat][text])
                 ELSE <<>>
    IN  [w EXCEPT !.component_combo = Filled(items)]

\* project_combo, whose currentTextChanged is connected to on_project_change
ProjectClear(w, rp) ==
    LET w1 == [w EXCEPT !.project_combo = EmptyCombo]
    IN  IF w.project_combo.idx # 0 THEN OnProjectChange(w1, rp, "") ELSE w1
ProjectAddItems(w, rp, items) ==
    IF items = <<>> THEN w
    ELSE OnProjectChange([w EXCEPT !.project_combo = Filled(items)], rp, items[1])
ProjectSetIndex(w, rp, i) ==
    IF i = w.project_combo.idx THEN w
    ELSE LET w1 == [w EXCEPT !.project_combo.idx = i]
         IN  OnProjectChange(w1, rp, CurrentText(w1.project_combo))
ProjectSetCurrentText(w, rp, text) ==
    LET i == FindText(w.project_combo, text)
    IN  IF i = 0 THEN w ELSE ProjectSetIndex(w, rp, i)

\* on_category_change
OnCategoryChange(w, rp, text) ==
    LET w1 == ProjectClear(w, rp)
    IN  IF text # "" /\ text \in DOMAIN rp
        THEN LET w2 == ProjectAddItems(w1, rp, Sorted(DOMAIN rp[text]))
             IN  IF Len(w2.project_combo.items) > 0
                 THEN LET w3 == ProjectSetIndex(w2, rp, 1)
                      IN  OnProjectChange(w3, rp, CurrentText(w3.project_combo))
                 ELSE w2
        ELSE w1

\* cat_combo, whose currentTextChanged is connected to on_category_change
CatClear(w, rp) ==
    LET w1 == [w EXCEPT !.cat_combo = EmptyCombo]
    IN  IF w.cat_combo.idx # 0 THEN OnCategoryChange(w1, rp, "") ELSE w1
CatAddItems(w, rp, items) ==
    IF items = <<>> THEN w
    ELSE OnCategoryChange([w EXCEPT !.cat_combo = Filled(items)], rp, items[1])
CatSetIndex(w, rp, i) ==
    IF i = w.cat_combo.idx THEN w
    ELSE LET w1 == [w EXCEPT !.cat_combo.idx = i]
         IN  OnCategoryChange(w1, rp, CurrentText(w1.cat_combo))
CatSetCurrentText(w, rp, text) ==
    LET i == FindText(w.cat_combo, text)
    IN  IF i = 0 THEN w ELSE CatSetIndex(w, rp, i)

\* component_combo.setCurrentText (no handler is connected)
ComponentSetCurrentText(w, text) ==
    LET i == FindText(w.component_combo, text)
    IN  IF i = 0 THEN w ELSE [w EXCEPT !.component_combo.idx = i]

\* populate_sidebar: a category item, then its projects
RECURSIVE SidebarOf(_, _)
SidebarOf(rp, cats) ==
    IF cats = <<>> THEN <<>>
    ELSE LET cat == Head(cats)
             projs == Sorted(DOMAIN rp[cat])
         IN  <<<<"category", cat, "">>>>
             \o [i \in 1..Len(projs) |-> <<"project", cat, projs[i]>>]
             \o SidebarOf(rp, Tail(cats))
PopulateSidebar(w, rp) == [w EXCEPT !.sidebar = SidebarOf(rp, Sorted(DOMAIN rp))]

\* refresh_projects, lines 307-314, with rp the catalog just loaded
RefreshProjects(w, rp) ==
    LET w0 == PopulateSidebar(w, rp)
        cur_cat == CurrentText(w0.cat_combo)
        w1 == CatClear(w0, rp)
        w2 == CatAddItems(w1, rp, Sorted(DOMAIN rp))
    IN  IF cur_cat # "" /\ cur_cat \in DOMAIN rp
        THEN CatSetCurrentText(w2, rp, cur_cat)
        ELSE w2

\* QMessageBox: the latest message box the handlers showed, with the button
\* the user answered a question with
NoBox == [title |-> "", text |-> <<>>, answer |-> ""]
ShowBox(w, title, text) ==
    [w EXCEPT !.box = [title |-> title, text |-> text, answer |-> ""]]
AskBox(w, title, text, answer) ==
    [w EXCEPT !.box = [title |-> title, text |-> text, answer |-> answer]]

\* the message box of load_or_create_config on file f (lines 279, 288)
ShowLoadBox(w, f) ==
    IF f.state = "missing"
    THEN ShowBox(w, "Sample Config Created", <<"repos.json was not found">>)
    ELSE IF f.state = "malformed"
    THEN ShowBox(w, "Config Error", <<"Failed to read repos.json">>)
    ELSE w

\* __init__: the widgets once the window is built on catalog rp.  cat_combo
\* is filled before its signal is connected.
InitialWindow(rp) ==
    LET w0 == [cat_combo |-> Filled(Sorted(DOMAIN rp)),
               project_combo |-> EmptyCombo,
               component_combo |-> EmptyCombo,
               sidebar |-> <<>>,
               dest_line |-> InitialDest,
               clone_btn |-> TRUE,
               box |-> NoBox]
        w1 == PopulateSidebar(w0, rp)
    IN  IF Len(w1.cat_combo.items) > 0
        THEN OnCategoryChange(w1, rp, CurrentText(w1.cat_combo))
        ELSE w1

-----------------------------------------------------------------------------
(* SimpleCloneManager: handlers *)

threadVars == <<threads, fs>>
catalogVars == <<sample, repos, aliased, file, lastLoad, lastAdd, adds, envs>>

\* toolbar refresh action -> refresh_projects
Refresh ==
    \E wok \in BOOLEAN :
        LET r == LoadOrCreateConfig(file, sample, wok) IN
        IF r.raised
        THEN UNCHANGED vars
        ELSE /\ repos' = r.data
             /\ aliased' = r.aliased
             /\ file' = r.file
             /\ lastLoad' = LoadRecord(file, r)
             /\ win' = RefreshProjects(ShowLoadBox(win, file), r.data)
             /\ UNCHANGED <<threadVars, sample, lastAdd, adds, envs>>

\* the user picks item i of cat_combo
SelectCategory(i) ==
    /\ i \in 1..Len(win.cat_combo.items)
    /\ win' = CatSetIndex(win, repos, i)
    /\ UNCHANGED <<threadVars, catalogVars>>

\* the user picks item i of project_combo
SelectProject(i) ==
    /\ i \in 1..Len(win.project_combo.items)
    /\ win' = ProjectSetIndex(win, repos, i)
    /\ UNCHANGED <<threadVars, catalogVars>>

\* the user picks item i of component_combo
SelectComponent(i) ==
    /\ i \in 1..Len(win.component_combo.items)
    /\ win' = [win EXCEPT !.component_combo.idx = i]
    /\ UNCHANGED <<threadVars, catalogVars>>

\* on_sidebar_item_clicked on item i
SidebarClick(i) ==
    /\ i \in 1..Len(win.sidebar)
    /\ LET data == win.sidebar[i] IN
       IF data[1] = "project"
       THEN LET w1 == CatSetCurrentText(win, repos, data[2])
                w2 == ProjectSetCurrentText(w1, repos, data[3])
            IN  win' = OnProjectChange(w2, repos, data[3])
       ELSE win' = win
    /\ UNCHANGED <<threadVars, catalogVars>>

\* browse_dest: the dialog returns directory d
BrowseDest(d) ==
    /\ win' = [win EXCEPT !.dest_line = <<d>>]
    /\ UNCHANGED <<threadVars, catalogVars>>

\* the user types text into dest_line
EditDest(text) ==
    /\ win' = [win EXCEPT !.dest_line = text]
    /\ UNCHANGED <<threadVars, catalogVars>>

\* lines 407-412: disable the button, construct the CloneThread and start it.
\* The frame of run() keeps an earlier thread object alive when
\* self.clone_thread is overwritten.
StartClone(w, url, dest_path) ==
    /\ \E t \in ThreadIds : threads[t].pc = "none"
    /\ LET t == CHOOSE n \in ThreadIds :
                    threads[n].pc = "none" /\ \A k \in 1..(n - 1) : threads[k].pc # "none"
       IN  threads' = [threads EXCEPT ![t] = [NewThread(url, dest_path) EXCEPT !.pc = "mkdir"]]
    /\ win' = [w EXCEPT !.clone_btn = FALSE]

\* (mutant) the URL of the project's first component, whichever is selected
UrlOfFirstComponent(rp, cat, proj, comp) ==
    rp[cat][proj][Sorted(DOMAIN rp[cat][proj])[1]]

\* line 377: url = self.repos[cat][proj][comp]
UrlOf(rp, cat, proj, comp) == rp[cat][proj][comp]

\* line 388: Path(dest) / proj / comp, a path as the sequence of its parts.
\* Catalog names are taken to be single relative path segments.
DestPath(dest, proj, comp) == <<dest, proj, comp>>

\* line 372: not cat or not proj or not comp
SelectionMissing(cat, proj, comp) == cat = "" \/ proj = "" \/ comp = ""

\* (mutant) an empty destination root is let through
DestMissingNever(dest) == FALSE

\* line 383: not dest, the stripped text of dest_line
DestMissing(dest) == dest = ""

\* (mutant) an existing destination is cloned into without asking
DestNotEmptyNever(dest_path) == FALSE

\* line 388: dest_path.exists() and any(dest_path.iterdir())
DestNotEmpty(dest_path) == dest_path \in fs

\* clone_button_clicked
CloneButtonClicked ==
    LET cat == CurrentText(win.cat_combo)
        proj == CurrentText(win.project_combo)
        comp == CurrentText(win.component_combo)
        found == /\ cat \in DOMAIN repos
                 /\ proj \in DOMAIN repos[cat]
                 /\ comp \in DOMAIN repos[cat][proj]
        dest == StripText(win.dest_line)
        dest_path == DestPath(dest, proj, comp)
    IN  IF SelectionMissing(cat, proj, comp)
        THEN /\ win' = ShowBox(win, "Selection required", <<>>)
             /\ UNCHANGED <<threadVars, catalogVars>>
        ELSE IF ~found
        THEN /\ win' = ShowBox(win, "Error", <<"Repo URL not found">>)
             /\ UNCHANGED <<threadVars, catalogVars>>
        ELSE IF DestMissing(dest)
        THEN /\ win' = ShowBox(win, "Destination required", <<>>)
             /\ UNCHANGED <<threadVars, catalogVars>>
        ELSE IF ~DestNotEmpty(dest_path)
        THEN /\ StartClone(win, UrlOf(repos, cat, proj, comp), dest_path)
             /\ UNCHANGED <<fs, catalogVars>>
        ELSE \E answer \in {"Yes", "No"}, removed \in BOOLEAN, emptied \in BOOLEAN :
                LET asked == AskBox(win, "Destination Not Empty", dest_path, answer)
                IN  IF answer = "No"
                    THEN /\ win' = asked
                         /\ UNCHANGED <<threadVars, catalogVars>>
                    ELSE IF ~removed
                    THEN \* rmtree raised, after emptying the directory or before
                         /\ win' = ShowBox(asked, "Error", <<"Failed to clear destination">>)
                         /\ fs' = IF emptied THEN fs \ {dest_path} ELSE fs
                         /\ UNCHANGED <<threads, catalogVars>>
                    ELSE /\ fs' = fs \ {dest_path}
                         /\ StartClone(asked, UrlOf(repos, cat, proj, comp), dest_path)
                         /\ UNCHANGED catalogVars

\* the Clone button, which setEnabled(False) switches off
CloneButton ==
    /\ win.clone_btn
    /\ CloneButtonClicked

\* the toolbar clone action, which nothing ever disables
CloneToolbar == CloneButtonClicked

\* clone_finished: the finished signal of thread t reaches the main thread
CloneFinished(t) ==
    /\ FinishedOf(threads[t]) # <<>>
    /\ threads' = [threads EXCEPT ![t] = GoneThread]
    /\ LET fin == FinishedOf(threads[t])[1]
           success == IF fin.ok THEN "True" ELSE "False"
       IN  win' = [ShowBox(win, "Clone Finished", <<success, fin.reason>>)
                      EXCEPT !.clone_btn = TRUE]
    /\ UNCHANGED <<fs, catalogVars>>

\* (mutant) a failed write puts the catalog back as it was
AfterFailedWriteRollback(old, new) == old

\* lines 482-484: the except branch returns; the upsert stays in self.repos
AfterFailedWrite(old, new) == new

\* the items of type_combo in the Add Project dialog
TypeChoices == IF DOMAIN repos = {} THEN {""} ELSE DOMAIN repos

\* add_project_dialog, Save: save_new_project(repo_type, ...) with the texts
\* of the three line edits; wok: repos.json can be written
SaveNewProject(repo_type, proj_edit, comp_edit, url_edit) ==
    LET project_name == StripText(proj_edit)
        component_name == StripText(comp_edit)
        repo_url == StripText(url_edit)
        new == Upsert(repos, repo_type, project_name, component_name, repo_url)
        \* the upsert changes SAMPLE_CONFIG too when self.repos is that object
        smp == IF aliased THEN new ELSE sample
    IN  IF project_name = "" \/ component_name = "" \/ repo_url = ""
        THEN /\ win' = ShowBox(win, "Validation", <<"Please fill all fields.">>)
             /\ UNCHANGED <<threadVars, catalogVars>>
        ELSE /\ adds < MaxAdds
             /\ adds' = adds + 1
             /\ sample' = smp
             /\ \E wok \in BOOLEAN :
                   /\ lastAdd' = [cat |-> repo_type, proj |-> project_name,
                                  comp |-> component_name, url |-> repo_url,
                                  written |-> wok]
                   /\ IF wok
                      THEN LET f == FileOk(Dump(new))
                               r == LoadOrCreateConfig(f, smp, TRUE)
                               w1 == RefreshProjects(ShowBox(win, "Saved", <<>>), r.data)
                               w2 == CatSetCurrentText(w1, r.data, repo_type)
                               w3 == ProjectSetCurrentText(w2, r.data, project_name)
                           IN  /\ file' = r.file
                               /\ repos' = r.data
                               /\ aliased' = r.aliased
                               /\ lastLoad' = LoadRecord(f, r)
                               /\ win' = ComponentSetCurrentText(w3, component_name)
                      ELSE /\ repos' = AfterFailedWrite(repos, new)
                           /\ win' = ShowBox(win, "Error", <<"Failed to write repos.json">>)
                           /\ UNCHANGED <<file, aliased, lastLoad>>
             /\ UNCHANGED <<threadVars, envs>>

\* repos.json is edited, damaged or deleted outside the application
ExternalCatalogs ==
    { EmptyDict,
      ("dev" :> EmptyDict) @@ ("localization" :> ("ProjectA" :> EmptyDict)) }
ExternalFiles ==
    {FileMissing, FileMalformed} \cup {FileOk(Dump(c)) : c \in ExternalCatalogs}

EnvFile(f) ==
    /\ envs < MaxEnvs
    /\ f # file
    /\ file' = f
    /\ envs' = envs + 1
    /\ UNCHANGED <<threadVars, sample, repos, aliased, win, lastLoad, lastAdd, adds>>

-----------------------------------------------------------------------------
(* The application: CatalogSpec and CloneSpec *)

NoAdd == [cat |-> "", proj |-> "", comp |-> "", url |-> "", written |-> FALSE]

\* the files the application may find when it starts
InitFiles ==
    {FileMissing, FileMalformed, FileOk(Dump(SAMPLE_CONFIG))}
    \cup {FileOk(Dump(c)) : c \in ExternalCatalogs}

\* SimpleCloneManager.__init__, started on one of the files F
AppInitFrom(F) ==
    \E f \in F :
        LET r == LoadOrCreateConfig(f, SAMPLE_CONFIG, TRUE) IN
        /\ sample = SAMPLE_CONFIG
        /\ repos = r.data
        /\ aliased = r.aliased
        /\ file = r.file
        /\ lastLoad = LoadRecord(f, r)
        /\ win = ShowLoadBox(InitialWindow(r.data), f)
        /\ threads = [t \in ThreadIds |-> NoThread]
        /\ fs = {}
        /\ lastAdd = NoAdd
        /\ adds = 0
        /\ envs = 0

AppInit == AppInitFrom(InitFiles)

\* CatalogSpec: the handlers that read or write the catalog and the selection.
\* They neither read nor write the clone threads, and the clone handlers of
\* CloneSpec leave the catalog alone, so each specification reaches every
\* state of its own variables that the whole application reaches.
CatalogNext ==
    \/ Refresh
    \/ \E i \in 1..Len(NameOrder) : SelectCategory(i)
    \/ \E i \in 1..Len(NameOrder) : SelectProject(i)
    \/ \E i \in 1..Len(NameOrder) : SelectComponent(i)
    \/ \E i \in 1..(2 * Len(NameOrder)) : SidebarClick(i)
    \/ \E k \in TypeChoices, pe \in ProjEdits, ce \in CompEdits, ue \in UrlEdits :
          SaveNewProject(k, pe, ce, ue)
    \/ \E f \in ExternalFiles : EnvFile(f)

CatalogSpec == AppInit /\ [][CatalogNext]_vars

\* what git writes, and how much, under CloneSpec
AppLine == <<"a", " ", "\n">>
AppMaxLines == 1
AppExitCodes == {0, 128}

\* CloneSpec: selection, destination, the clone handlers, the clone threads
\* and their git processes
CloneNext ==
    \/ \E i \in 1..Len(NameOrder) : SelectCategory(i)
    \/ \E i \in 1..Len(NameOrder) : SelectProject(i)
    \/ \E i \in 1..Len(NameOrder) : SelectComponent(i)
    \/ \E i \in 1..(2 * Len(NameOrder)) : SidebarClick(i)
    \/ \E d \in BrowseDirs : BrowseDest(d)
    \/ \E text \in DestEdits : EditDest(text)
    \/ CloneButton
    \/ CloneToolbar
    \/ \E t \in ThreadIds : CloneFinished(t)
    \/ \E t \in ThreadIds :
          \/ RunMkdir(t)
          \/ RunPopen(t)
          \/ RunRead(t)
          \/ RunCheck(t)
          \/ RunWait(t)
          \/ ProcEmit(t, AppLine, AppMaxLines)
          \/ \E ret \in AppExitCodes : ProcExit(t, ret)

\* CloneSpec starts on a repos.json the user wrote: one project with two
\* components and one without any, or a catalog of ExternalCatalogs
CloneCatalog ==
    "dev" :> (("ProjectA" :> (("Test" :> "u1") @@ ("Component2" :> "u2")))
              @@ ("ProjectB" :> EmptyDict))
CloneInitFiles == {FileOk(Dump(c)) : c \in {CloneCatalog} \cup ExternalCatalogs}
CloneInit == AppInitFrom(CloneInitFiles)

CloneSpec == CloneInit /\ [][CloneNext]_vars

\* RequestSpec: CloneSpec started on CloneCatalog, with the add-project
\* handler beside the clone handlers and without the sidebar and the
\* destination edits, to follow the requests of running tasks while the
\* catalog and the selection change
RequestUrlEdits == { <<"u2">> }
RequestNext ==
    \/ \E i \in 1..Len(NameOrder) : SelectProject(i)
    \/ \E i \in 1..Len(NameOrder) : SelectComponent(i)
    \/ \E k \in TypeChoices, ue \in RequestUrlEdits :
          SaveNewProject(k, <<"ProjectA">>, <<"Test">>, ue)
    \/ CloneButton
    \/ CloneToolbar
    \/ \E t \in ThreadIds : CloneFinished(t)
    \/ \E t \in ThreadIds :
          \/ RunMkdir(t)
          \/ RunPopen(t)
          \/ RunRead(t)
          \/ RunCheck(t)
          \/ RunWait(t)
          \/ ProcEmit(t, AppLine, AppMaxLines)
          \/ \E ret \in AppExitCodes : ProcExit(t, ret)

RequestInit == AppInitFrom({FileOk(Dump(CloneCatalog))})

RequestSpec == RequestInit /\ [][RequestNext]_vars

\* the worker threads run, every git process exits, and the event loop
\* delivers the finished signals
FairCloneSpec ==
    CloneSpec /\ \A t \in ThreadIds :
                    /\ WF_vars(Worker(t))
                    /\ WF_vars(\E ret \in AppExitCodes : ProcExit(t, ret))
                    /\ WF_vars(CloneFinished(t))

-----------------------------------------------------------------------------
(* TaskSpec: one CloneThread and a caller holding it *)

\* a CloneThread constructed by its caller; the application is not involved
TaskInit ==
    /\ \E u \in Urls, d \in TaskDests :
          threads = [t \in ThreadIds |-> IF t = 1 THEN NewThread(u, d) ELSE NoThread]
    /\ fs = {}
    /\ sample = SAMPLE_CONFIG
    /\ repos = SAMPLE_CONFIG
    /\ aliased = TRUE
    /\ file = FileOk(Dump(SAMPLE_CONFIG))
    /\ lastLoad = LoadRecord(FileMissing, LoadOrCreateConfig(FileMissing, SAMPLE_CONFIG, TRUE))
    /\ win = InitialWindow(SAMPLE_CONFIG)
    /\ lastAdd = NoAdd
    /\ adds = 0
    /\ envs = 0

TaskNext ==
    \E t \in ThreadIds :
        \/ Start(t)
        \/ Stop(t)
        \/ RunMkdir(t)
        \/ RunPopen(t)
        \/ RunRead(t)
        \/ RunCheck(t)
        \/ RunWait(t)
        \/ \E line \in Lines : ProcEmit(t, line, MaxLines)
        \/ \E ret \in ExitCodes : ProcExit(t, ret)

TaskSpec == TaskInit /\ [][TaskNext]_vars

\* the worker thread keeps running once started
FairTaskSpec == TaskSpec /\ \A t \in ThreadIds : WF_vars(Worker(t))

-----------------------------------------------------------------------------
(* Properties of the Clone Task (TaskSpec) *)

LineLogsOf(th) ==
    SelectSeq(th.events, LAMBDA e : e.kind = "log" /\ e.msg[1] = "line")
Terminated(th) == th.pc \in {"done", "raised"}
\* the run ended in the abort branch of the loop
Cancelled(th) == th.killedAt >= 0

\* C1: every started Clone Task delivers exactly one finished event, whatever
\* happens during the run, and no failure leaves run() as an exception.
\* (Stated as the claim; the run that fails in mkdir violates it.)
C1_ExactlyOneFinished ==
    \A t \in ThreadIds :
        /\ Len(FinishedOf(threads[t])) <= 1
        /\ Terminated(threads[t]) =>
              /\ threads[t].pc = "done"
              /\ Len(FinishedOf(threads[t])) = 1

\* C3 (as claimed): a task stopped while its process was running and had not
\* produced any output ends with finished(false, "aborted"), however the
\* process goes on.
C3_StopBeforeOutputCancels ==
    \A t \in ThreadIds :
        (threads[t].stoppedEarly /\ Terminated(threads[t])) =>
            FinishedOf(threads[t]) = <<FinishedEvent(FALSE, "aborted")>>

\* C3 (amended): a task stopped before its process produced any output
\* eventually delivers finished(false, "aborted") provided the process then
\* writes at least one line for the loop to read; when the process exits
\* without output the flag is never looked at and the finished event reports
\* the exit status.
C3_StopBeforeOutputCancelsIfLine ==
    \A t \in ThreadIds :
        /\ [](threads[t].stoppedEarly /\ threads[t].produced # <<>>
                => <>(FinishedOf(threads[t]) = <<FinishedEvent(FALSE, "aborted")>>))
        /\ [](threads[t].stoppedEarly /\ threads[t].produced = <<>>
                /\ threads[t].pc = "done"
                => FinishedOf(threads[t]) = <<WaitSignals(threads[t].ret)[2]>>)

C3_Witness ==
    \E t \in ThreadIds :
        /\ threads[t].stoppedEarly
        /\ threads[t].produced # <<>>
        /\ threads[t].pc = "done"
        /\ FinishedOf(threads[t]) = <<FinishedEvent(FALSE, "aborted")>>

\* C4: the loop iteration that sees the flag set kills the process, then emits
\* the abort log line, then finished(false, "aborted"); the line read in that
\* iteration and all later output are never logged, and the finished event is
\* the last thing emitted.
C4_AbortOrder ==
    \A t \in ThreadIds :
        LET th == threads[t]
            n == Len(th.events)
        IN  th.obs > 0 =>
              /\ th.pc = "done"
              /\ th.proc # "running"
              /\ n >= 2
              /\ th.killedAt = n - 2
              /\ th.events[n - 1] = LogEvent(AbortMsg)
              /\ th.events[n] = FinishedEvent(FALSE, "aborted")
              /\ Len(FinishedOf(th)) = 1
              /\ LineLogsOf(th) =
                    [i \in 1..(th.obs - 1) |-> LogEvent(LineMsg(Rstrip(th.produced[i])))]

C4_Witness ==
    \E t \in ThreadIds :
        /\ threads[t].obs = 2
        /\ threads[t].pc = "done"
        /\ Len(LineLogsOf(threads[t])) = 1

\* C5: in a run that is not cancelled the finished event is determined by the
\* outcome: (true, "success") exactly for exit status 0, (false, "exit N") for
\* status N # 0, (false, "git-not-found") when git is not found, (false,
\* message) for another launch failure; success never comes with anything else.
C5_FinishedMatchesOutcome ==
    \A t \in ThreadIds :
        LET th == threads[t]
            fin == FinishedOf(th)
        IN  /\ (th.pc = "done") => Len(fin) = 1
            /\ \A i \in 1..Len(fin) :
                  /\ fin[i].ok =>
                        /\ fin[i].reason = "success"
                        /\ th.launch = "ok" /\ th.proc = "exited" /\ th.ret = 0
                        /\ ~Cancelled(th)
                  /\ ~Cancelled(th) =>
                        /\ th.launch = "notfound" =>
                              fin[i] = FinishedEvent(FALSE, "git-not-found")
                        /\ th.launch = "error" =>
                              (~fin[i].ok /\ fin[i].reason \in ErrMsgs)
                        /\ th.launch = "ok" =>
                              /\ th.proc = "exited"
                              /\ th.ret = 0 => fin[i] = FinishedEvent(TRUE, "success")
                              /\ th.ret # 0 =>
                                    fin[i] = FinishedEvent(FALSE, ExitReason(th.ret))

C5_Witness ==
    \E t \in ThreadIds :
        /\ threads[t].pc = "done"
        /\ threads[t].ret = 128
        /\ threads[t].produced # <<>>
        /\ FinishedOf(threads[t]) = <<FinishedEvent(FALSE, "exit 128")>>

\* C6: while stop() has not been called, the line log events are the lines the
\* process wrote, in order, none dropped or duplicated; once the finished event
\* is out every line has been logged and nothing follows the finished event.
C6_LinesInOrder ==
    \A t \in ThreadIds :
        LET th == threads[t]
            logs == LineLogsOf(th)
        IN  ~th.stopped =>
              /\ Len(logs) <= Len(th.produced)
              /\ logs = [i \in 1..Len(logs) |-> LogEvent(LineMsg(Rstrip(th.produced[i])))]
              /\ \A i \in 1..Len(th.events) :
                    th.events[i].kind = "finished" => i = Len(th.events)
              /\ (FinishedOf(th) # <<>> /\ th.launch = "ok") =>
                    Len(logs) = Len(th.produced)

C6_Witness ==
    \E t \in ThreadIds :
        /\ ~threads[t].stopped
        /\ threads[t].pc = "done"
        /\ Len(threads[t].produced) >= 2
        /\ threads[t].produced[1] # threads[t].produced[2]
        /\ Len(LineLogsOf(threads[t])) = Len(threads[t].produced)

-----------------------------------------------------------------------------
(* Properties of the application (CloneSpec, CatalogSpec) *)

\* run() of th has started and has not yet emitted its finished signal
Running(th) == th.pc \in {"mkdir", "popen", "read", "check"}

\* C2: at most one Clone Task is running at any time.
\* (Stated as the claim; the toolbar clone action stays enabled while a clone
\* runs and starts a second one.)
C2_AtMostOneRunning ==
    Cardinality({t \in ThreadIds : Running(threads[t])}) <= 1

\* C7: a load that finds repos.json malformed returns the built-in default
\* catalog as the module defines it and leaves the file as it is.
\* (Stated as the claim; an earlier add-project on the aliased sample changes
\* what the load returns.)
C7_MalformedLoadReturnsDefault ==
    lastLoad.kind = "malformed" =>
        /\ lastLoad.returned = SAMPLE_CONFIG
        /\ lastLoad.after = FileMalformed

\* C8: a load that finds no repos.json writes the built-in default catalog to
\* it and returns that default.
\* (Stated as the claim; an earlier add-project on the aliased sample changes
\* what is written and returned.)
C8_MissingLoadCreatesDefault ==
    lastLoad.kind = "missing" =>
        /\ lastLoad.returned = SAMPLE_CONFIG
        /\ lastLoad.after = FileOk(Dump(SAMPLE_CONFIG))

\* the names and URLs an add-project request may carry
AddProjects == {StripText(e) : e \in ProjEdits} \ {""}
AddComponents == {StripText(e) : e \in CompEdits} \ {""}

\* C9: upserting the same (category, project, component) with u1 and then
\* with u2 leaves one component of that name, with URL u2, and the catalog
\* equals the one a single upsert with u2 produces.
C9_UpsertTwiceOverwrites ==
    \A k \in TypeChoices, p \in AddProjects, m \in AddComponents :
        LET r1 == Upsert(repos, k, p, m, "u1")
            r2 == Upsert(r1, k, p, m, "u2")
        IN  /\ r1[k][p][m] = "u1"
            /\ r2[k][p][m] = "u2"
            /\ DOMAIN r2[k][p] = DOMAIN r1[k][p]
            /\ Cardinality({e \in Dump(r2) :
                              Len(e) = 4 /\ e[1] = k /\ e[2] = p /\ e[3] = m}) = 1
            /\ r2 = Upsert(repos, k, p, m, "u2")

\* the application has overwritten the URL of a component the catalog held
C9_Witness ==
    /\ adds >= 1
    /\ lastAdd.cat = "dev" /\ lastAdd.proj = "ProjectA" /\ lastAdd.comp = "Test"
    /\ lastAdd.url = "u2"
    /\ "dev" \in DOMAIN repos
    /\ "ProjectA" \in DOMAIN repos["dev"]
    /\ DOMAIN repos["dev"]["ProjectA"] = {"Test", "Component2"}
    /\ repos["dev"]["ProjectA"]["Test"] = "u2"

\* the document entries of component m of project p of category k
EntriesOf(c, k, p, m) ==
    {e \in Dump(c) : Len(e) = 4 /\ e[1] = k /\ e[2] = p /\ e[3] = m}

\* C10: an add-project upsert creates the category and project levels if
\* absent, sets that one component's URL, and leaves every other category,
\* project and component of the in-memory catalog present and unchanged.
C10_UpsertIsAdditive ==
    [][ adds' = adds + 1 =>
          LET a == lastAdd' IN
          /\ a.cat \in DOMAIN repos'
          /\ a.proj \in DOMAIN repos'[a.cat]
          /\ a.comp \in DOMAIN repos'[a.cat][a.proj]
          /\ repos'[a.cat][a.proj][a.comp] = a.url
          /\ Dump(repos') =
                (Dump(repos) \ EntriesOf(repos, a.cat, a.proj, a.comp))
                \cup {<<a.cat>>, <<a.cat, a.proj>>, <<a.cat, a.proj, a.comp, a.url>>}
      ]_vars

\* a project level was created beside the projects the category held
C10_Witness ==
    /\ adds >= 1
    /\ lastAdd.proj = "ProjectC"
    /\ lastAdd.cat \in DOMAIN repos
    /\ {"ProjectA", "ProjectB", "ProjectC"} \subseteq DOMAIN repos[lastAdd.cat]
    /\ repos[lastAdd.cat]["ProjectC"] = (lastAdd.comp :> lastAdd.url)

-----------------------------------------------------------------------------
(* Add project, selection and clone trigger (CatalogSpec, CloneSpec) *)

\* the catalog the latest add-project request asks for, from catalog c
Requested(c, a) == Upsert(c, a.cat, a.proj, a.comp, a.url)

\* C11: after an add-project that passes validation and whose write of
\* repos.json succeeds, the file holds the upserted catalog, and it parses
\* to a catalog equal to the in-memory catalog.
C11_SavedCatalogRoundTrips ==
    [][ (adds' = adds + 1 /\ lastAdd'.written) =>
          /\ win'.box.title = "Saved"
          /\ file'.state = "ok"
          /\ repos' = Requested(repos, lastAdd')
          /\ ParseDoc(file'.doc) = repos'
          /\ ParseDoc(Dump(repos')) = repos'
      ]_vars

\* a saved catalog that keeps a project without components beside the
\* added entry
C11_Witness ==
    /\ adds >= 1
    /\ lastAdd.written
    /\ win.box.title = "Saved"
    /\ file.state = "ok"
    /\ ParseDoc(file.doc) = repos
    /\ \E k \in DOMAIN repos : \E p \in DOMAIN repos[k] : repos[k][p] = EmptyDict
    /\ repos[lastAdd.cat][lastAdd.proj][lastAdd.comp] = lastAdd.url

\* C12: when the write of repos.json fails during an add-project, the failure
\* is reported in an error box, the file is left as it was, and the in-memory
\* catalog holds the attempted (category, project, component) -> url entry
\* once the handler has returned.
C12_FailedWriteKeepsEntry ==
    [][ (adds' = adds + 1 /\ ~lastAdd'.written) =>
          LET a == lastAdd' IN
          /\ win'.box = [title |-> "Error", text |-> <<"Failed to write repos.json">>,
                         answer |-> ""]
          /\ file' = file
          /\ a.cat \in DOMAIN repos'
          /\ a.proj \in DOMAIN repos'[a.cat]
          /\ a.comp \in DOMAIN repos'[a.cat][a.proj]
          /\ repos'[a.cat][a.proj][a.comp] = a.url
          /\ repos' = Requested(repos, a)
      ]_vars

\* the write failed and the catalog in memory holds an entry repos.json lacks
C12_Witness ==
    /\ adds >= 1
    /\ ~lastAdd.written
    /\ win.box.title = "Error"
    /\ file.state = "ok"
    /\ lastAdd.cat \in DOMAIN repos
    /\ lastAdd.proj \in DOMAIN repos[lastAdd.cat]
    /\ lastAdd.comp \in DOMAIN repos[lastAdd.cat][lastAdd.proj]
    /\ repos[lastAdd.cat][lastAdd.proj][lastAdd.comp] = lastAdd.url
    /\ <<lastAdd.cat, lastAdd.proj, lastAdd.comp, lastAdd.url>> \notin file.doc

\* the clone trigger would be refused in this state: a selection or the
\* destination root is empty
CloneBlocked ==
    \/ CurrentText(win.cat_combo) = ""
    \/ CurrentText(win.project_combo) = ""
    \/ CurrentText(win.component_combo) = ""
    \/ StripText(win.dest_line) = ""

BlockedBoxes == {"Selection required", "Destination required"}

\* C13: when the category, project or component selection is empty or the
\* destination root is empty, no step creates or starts a Clone Task, and the
\* clone trigger only shows its warning: the Clone button keeps its state and
\* the threads, the filesystem and the catalog are unchanged.
C13_BlockedTriggerStartsNothing ==
    [][ CloneBlocked =>
          /\ \A t \in ThreadIds : threads[t].pc = "none" => threads'[t].pc = "none"
          /\ (win'.box # win.box /\ win'.box.title \notin {"Clone Finished"}) =>
                /\ win'.box.title \in BlockedBoxes
                /\ win'.box.answer = ""
                /\ win' = [win EXCEPT !.box = win'.box]
                /\ UNCHANGED <<threads, fs, sample, repos, aliased, file>>
      ]_vars

\* the trigger was refused for an empty destination root, no task exists and
\* the Clone button is still enabled
C13_Witness ==
    /\ win.box.title = "Destination required"
    /\ StripText(win.dest_line) = ""
    /\ CurrentText(win.component_combo) # ""
    /\ win.clone_btn
    /\ \A t \in ThreadIds : threads[t].pc = "none"

\* C14: an add-project request in which the category, the project name, the
\* component name or the URL is empty is blocked: no upsert is made, and the
\* validation warning leaves the in-memory catalog and repos.json unchanged.
\* (Stated as the claim; the category is not validated, and the empty text of
\* an empty type_combo is upserted as a category.)
C14_EmptyFieldBlocked ==
    [][ /\ adds' = adds + 1 =>
              /\ lastAdd'.cat # ""
              /\ lastAdd'.proj # ""
              /\ lastAdd'.comp # ""
              /\ lastAdd'.url # ""
        /\ (win'.box.title = "Validation" /\ win'.box # win.box) =>
              UNCHANGED <<sample, repos, aliased, file, adds, lastAdd>>
      ]_vars

\* the first name of a set in sorted order, or the empty text
FirstOf(S) == IF S = {} THEN "" ELSE Sorted(S)[1]
ProjectsOf(c, k) == IF k \in DOMAIN c THEN DOMAIN c[k] ELSE {}
ComponentsOf(c, k, p) ==
    IF k \in DOMAIN c /\ p \in DOMAIN c[k] THEN DOMAIN c[k][p] ELSE {}

\* C15: a step that selects another category leaves the first project of
\* that category selected, in sorted order, and the first component of that
\* project, or the empty text where there is none; a step that selects
\* another project leaves the first component of that project selected, or
\* the empty text.
C15_SelectionResets ==
    [][ /\ \A i \in 1..Len(win.cat_combo.items) :
              SelectCategory(i) =>
                  LET cat == win.cat_combo.items[i]
                      proj == FirstOf(ProjectsOf(repos, cat))
                  IN  /\ CurrentText(win'.cat_combo) = cat
                      /\ CurrentText(win'.project_combo) = proj
                      /\ CurrentText(win'.component_combo)
                            = FirstOf(ComponentsOf(repos, cat, proj))
        /\ \A i \in 1..Len(win.project_combo.items) :
              SelectProject(i) =>
                  LET cat == CurrentText(win.cat_combo)
                      proj == win.project_combo.items[i]
                  IN  /\ CurrentText(win'.cat_combo) = cat
                      /\ CurrentText(win'.project_combo) = proj
                      /\ CurrentText(win'.component_combo)
                            = FirstOf(ComponentsOf(repos, cat, proj))
      ]_vars

\* the second category of the sample was selected: its first project and
\* the first of that project's two components are current
C15_Witness ==
    /\ adds = 0
    /\ repos = SAMPLE_CONFIG
    /\ win.cat_combo.items = <<"dev", "localization">>
    /\ CurrentText(win.cat_combo) = "localization"
    /\ CurrentText(win.project_combo) = "ProjectA"
    /\ win.component_combo.items = <<"strings", "ui">>
    /\ CurrentText(win.component_combo) = "strings"

\* C16: between user actions the offered project list is the sorted project
\* names of the in-memory catalog under the selected category, and the
\* offered component list is the sorted component names under the selected
\* category and project.
\* (Stated as the claim; an add-project whose write fails changes self.repos
\* and returns before refresh_projects, so the lists stay as they were.)
C16_ListsDerivedFromCatalog ==
    LET cat == CurrentText(win.cat_combo)
        proj == CurrentText(win.project_combo)
    IN  /\ win.project_combo.items = Sorted(ProjectsOf(repos, cat))
        /\ win.component_combo.items = Sorted(ComponentsOf(repos, cat, proj))

\* thread t is constructed and started by this step
Created(t) == threads[t].pc = "none" /\ threads'[t].pc # "none"

\* C17: a Clone Task whose destination exists and is not empty is started
\* only in a step in which the user answered Yes to the overwrite question
\* and the destination was removed; a destination goes away only in such a
\* step or when its removal fails part-way; when the user answers No, or the
\* removal fails, no task is created, and on No the filesystem is unchanged.
C17_OverwriteOnlyAfterConfirm ==
    [][ /\ \A t \in ThreadIds :
              Created(t) =>
                  /\ threads'[t].dest \notin fs'
                  /\ threads'[t].dest \in fs =>
                        win'.box = [title |-> "Destination Not Empty",
                                    text |-> threads'[t].dest, answer |-> "Yes"]
        /\ \A d \in fs \ fs' :
              \/ \E t \in ThreadIds : Created(t) /\ threads'[t].dest = d
              \/ win'.box.text = <<"Failed to clear destination">>
        /\ (win'.box # win.box /\ win'.box.title = "Destination Not Empty"
                /\ win'.box.answer = "No") =>
              /\ win'.box.text \in fs
              /\ UNCHANGED <<threads, fs>>
        /\ (win'.box # win.box /\ win'.box.text = <<"Failed to clear destination">>) =>
              UNCHANGED threads
      ]_vars

\* a second clone into a destination the first one filled: the user said
\* Yes, the destination is gone and the new task is about to run
C17_Witness ==
    \E t \in ThreadIds :
        /\ threads[t].pc = "mkdir"
        /\ win.box = [title |-> "Destination Not Empty",
                      text |-> threads[t].dest, answer |-> "Yes"]
        /\ threads[t].dest \notin fs
        /\ ~win.clone_btn

-----------------------------------------------------------------------------
(* Requests of running tasks (RequestSpec) *)

\* the CloneThread object t exists and has not been handled by clone_finished
Alive(th) == th.pc \notin {"none", "gone"}

\* C18: a Clone Task is constructed with the URL the in-memory catalog holds
\* for the category, project and component selected when the clone is
\* triggered, and with destination root/project/component for the
\* destination root of that moment; no later step, catalog mutation and
\* selection change included, alters the URL or destination of a task that
\* exists.
C18_RequestFixedAtTrigger ==
    [][ \A t \in ThreadIds :
          /\ Created(t) =>
                LET cat == CurrentText(win.cat_combo)
                    proj == CurrentText(win.project_combo)
                    comp == CurrentText(win.component_combo)
                IN  /\ cat \in DOMAIN repos
                    /\ proj \in DOMAIN repos[cat]
                    /\ comp \in DOMAIN repos[cat][proj]
                    /\ threads'[t].url = repos[cat][proj][comp]
                    /\ threads'[t].dest = <<StripText(win.dest_line), proj, comp>>
          /\ (Alive(threads[t]) /\ Alive(threads'[t])) =>
                /\ threads'[t].url = threads[t].url
                /\ threads'[t].dest = threads[t].dest
      ]_vars

\* a task cloning dev/ProjectA/Test from u1 is running while the catalog
\* already holds u2 for that component and another component is selected
C18_Witness ==
    \E t \in ThreadIds :
        /\ Running(threads[t])
        /\ threads[t].url = "u1"
        /\ threads[t].dest = <<"/cwd/cloned", "ProjectA", "Test">>
        /\ repos["dev"]["ProjectA"]["Test"] = "u2"
        /\ CurrentText(win.component_combo) = "Component2"

-----------------------------------------------------------------------------
(* Liveness and reachability in the application (FairCloneSpec, CloneSpec) *)

\* C19: whenever a clone start has disabled the Clone button, the button is
\* eventually enabled again, whatever the outcome of the background task.
\* (Stated as the claim; a run() that fails creating the destination's
\* parent directory emits no finished signal, and clone_finished, the only
\* place that enables the button, is never called.)
C19_ButtonReenabled ==
    (~win.clone_btn) ~> win.clone_btn

\* C20: in the application no handler calls CloneThread.stop(): the flag of
\* every task the user interface started stays false, no such run takes the
\* abort branch, and none reports finished(false, "aborted").  A task is
\* cancelled only when a caller holding it calls stop() itself, as the
\* caller of TaskSpec does.
C20_NoAbortThroughUI ==
    \A t \in ThreadIds :
        /\ ~threads[t].stopped
        /\ ~threads[t].stoppedEarly
        /\ ~Cancelled(threads[t])
        /\ \A i \in 1..Len(threads[t].events) :
              /\ threads[t].events[i] # FinishedEvent(FALSE, "aborted")
              /\ threads[t].events[i] # LogEvent(AbortMsg)

\* a task started from the Clone button read a line of git's output,
\* passed the check of the flag and ran to its finished signal
C20_Witness ==
    \E t \in ThreadIds :
        /\ threads[t].pc = "done"
        /\ threads[t].nread >= 1
        /\ Len(LineLogsOf(threads[t])) >= 1
        /\ Len(FinishedOf(threads[t])) = 1
        /\ ~win.clone_btn

====
